---- MODULE Spec2Model ----
(***************************************************************************)
(* Model of the token dispenser client: validate_input, get_tds_arn with   *)
(* get_parameters_by_path / get_parameter_by_name, invoke_lambda and the   *)
(* orchestrator get_token.  The repository holds two packages with the     *)
(* same functions, token_dispenser_client_lib and token_dispenser_client;  *)
(* the variable "module" says which one is running.                        *)
(*                                                                         *)
(* Python values are modelled as follows.                                  *)
(*   str        a sequence of pieces (single characters for client_id,     *)
(*              whole literals for messages); '' is << >>                  *)
(*   None/str   [t |-> "None" | "str", s |-> str]                          *)
(*   number     [t |-> "None" | "int" | "float", twice |-> 2 * value]      *)
(*   JSON value [t |-> "null"|"int"|"float"|"str"|"dict", n, s, items]     *)
(*   dict       a sequence of [k, v] items in insertion order              *)
(*   JSON text  a sequence of tokens [t |-> "{" "}" ":" "," "lit" "bad",   *)
(*              v |-> JSON scalar]                                         *)
(***************************************************************************)
EXTENDS Integers, Sequences, FiniteSets, TLC

LIB == "token_dispenser_client_lib"
CLI == "token_dispenser_client"
Modules == {LIB, CLI}

(* ------------------------------ bounds -------------------------------- *)
\* longest run of alphanumeric characters in a generated client_id
MaxRun == 33
\* most entries the parameter store hands out over all pages of one listing
MaxReturned == 3
\* the count of listing calls is kept exactly up to this value, then saturates
MaxCalls == 3
\* longest enumerated JSON text handed to invoke_lambda
MaxTextLen == 5

(* ------------------------- program constants -------------------------- *)
MinIdLen == 3
MaxIdLen == 32
MaxAliveSecs == 3300
MinAliveSecs == 0
DefaultAliveSecs == 300
ValidationStatus == 422
ResolutionStatus == 500

_DEFAULT_SSM_PATH_ == "/service/token-dispenser"

(* ------------------------------ strings ------------------------------- *)
AlnumChars == {"a", "Z", "7"}
SpaceChars == {" ", "\n"}
OtherChars == {"!", "_"}
Alphabet == AlnumChars \cup SpaceChars \cup OtherChars

None == [t |-> "None", s |-> << >>]
Str(s) == [t |-> "str", s |-> s]

RECURSIVE lstrip(_)
lstrip(s) ==
    IF s # << >> /\ Head(s) \in SpaceChars THEN lstrip(Tail(s)) ELSE s

RECURSIVE rstrip(_)
rstrip(s) ==
    IF s # << >> /\ s[Len(s)] \in SpaceChars
    THEN rstrip(SubSeq(s, 1, Len(s) - 1)) ELSE s

\* str.strip()
strip(s) == rstrip(lstrip(s))

\* str.endswith('/') for a parameter name given as its pieces
endswith_slash(s) == s # << >> /\ s[Len(s)] = "/"

\* bool(x) of an optional string: None and '' are falsy
Truthy(x) == x.t = "str" /\ x.s # << >>

\* re.compile(r'^[a-zA-Z0-9]{3,32}$').match(s): k characters of the class,
\* MinIdLen <= k <= MaxIdLen, then '$', which matches at the end of the string
\* and also just before a newline that ends the string
pattern_match(s) ==
    \E k \in MinIdLen..MaxIdLen :
        /\ k <= Len(s)
        /\ \A i \in 1..k : s[i] \in AlnumChars
        /\ \/ k = Len(s)
           \/ k = Len(s) - 1 /\ s[Len(s)] = "\n"

(* ------------------------------ numbers ------------------------------- *)
NoNum == [t |-> "None", twice |-> 0]
IntNum(n) == [t |-> "int", twice |-> 2 * n]
\* the float h/2
FloatNum(h) == [t |-> "float", twice |-> h]

\* x.is_integer() of an int or a float (int has the method from Python 3.12 on,
\* which the package's tests rely on)
is_integer(x) == x.twice % 2 = 0

\* isinstance(x, int)
isinstance_int(x) == x.t = "int"

\* x > 3300 or x < 0
out_of_range(x) == x.twice > 2 * MaxAliveSecs \/ x.twice < 2 * MinAliveSecs

(* --------------------------- validate_input --------------------------- *)
MsgRequired == "Error: client_id is required"
MsgPattern == "client_id must be between length 3-32 with pattern [a-zA-Z0-9]{3,32}"
MsgInteger == "Minimum alive interval must be an integer"
MsgRange == "Minimum alive interval must be an integer between 1 and 3300"

\* token_dispenser_client_lib: one string, the client_id message overwritten,
\* the interval messages appended after "\n "
lib_validate_input(client_id, minimum_alive_secs) ==
    LET e1 == IF client_id.t = "None" \/ strip(client_id.s) = << >>
              THEN <<MsgRequired>> ELSE << >>
        e2 == IF Truthy(client_id) /\ ~pattern_match(client_id.s)
              THEN <<MsgPattern>> ELSE e1
        e3 == IF minimum_alive_secs.t # "None" /\ ~is_integer(minimum_alive_secs)
              THEN e2 \o <<"\n ", MsgInteger>> ELSE e2
        e4 == IF /\ minimum_alive_secs.t # "None"
                 /\ is_integer(minimum_alive_secs)
                 /\ out_of_range(minimum_alive_secs)
              THEN e3 \o <<"\n ", MsgRange>> ELSE e3
    IN  e4

\* token_dispenser_client: a list of messages
cli_validate_input(client_id, minimum_alive_secs) ==
    LET e1 == IF client_id.t = "None" \/ strip(client_id.s) = << >>
              THEN <<MsgRequired>> ELSE << >>
        e2 == IF Truthy(client_id) /\ ~pattern_match(client_id.s)
              THEN e1 \o <<MsgPattern>> ELSE e1
        e3 == IF minimum_alive_secs.t # "None" /\ ~isinstance_int(minimum_alive_secs)
              THEN e2 \o <<MsgInteger>> ELSE e2
        e4 == IF isinstance_int(minimum_alive_secs) /\ out_of_range(minimum_alive_secs)
              THEN e3 \o <<MsgRange>> ELSE e3
    IN  e4

validate_input(m, client_id, minimum_alive_secs) ==
    IF m = LIB THEN lib_validate_input(client_id, minimum_alive_secs)
    ELSE cli_validate_input(client_id, minimum_alive_secs)

(* -------------------------------- dict -------------------------------- *)
Item(k, v) == [k |-> k, v |-> v]

DictHas(d, k) == \E i \in 1..Len(d) : d[i].k = k

\* d[k] = v: an existing key keeps its place, a new key goes last
DictSet(d, k, v) ==
    IF DictHas(d, k)
    THEN [i \in 1..Len(d) |-> IF d[i].k = k THEN Item(k, v) ELSE d[i]]
    ELSE Append(d, Item(k, v))

DictKeys(d) == {d[i].k : i \in 1..Len(d)}

RECURSIVE DictUpdate(_, _)
\* for item in items: d[item.k] = item.v
DictUpdate(d, items) ==
    IF items = << >> THEN d
    ELSE DictUpdate(DictSet(d, Head(items).k, Head(items).v), Tail(items))

(* -------------------------------- json -------------------------------- *)
JNull == [t |-> "null", n |-> 0, s |-> << >>, items |-> << >>]
JNum(x) == [t |-> x.t, n |-> x.twice, s |-> << >>, items |-> << >>]
JInt(n) == [t |-> "int", n |-> 2 * n, s |-> << >>, items |-> << >>]
JStr(s) == [t |-> "str", n |-> 0, s |-> s, items |-> << >>]
JDict(items) == [t |-> "dict", n |-> 0, s |-> << >>, items |-> items]

\* the JSON value of an optional string and of an optional number
JOfStr(x) == IF x.t = "None" THEN JNull ELSE JStr(x.s)
JOfNum(x) == IF x.t = "None" THEN JNull ELSE JNum(x)

Punct(c) == [t |-> c, v |-> JNull]
Lit(v) == [t |-> "lit", v |-> v]
\* text that is no JSON token at all
Bad == [t |-> "bad", v |-> JNull]

RECURSIVE dumps_items(_)
dumps_items(items) ==
    IF items = << >> THEN << >>
    ELSE <<Lit(JStr(Head(items).k)), Punct(":"), Lit(Head(items).v)>>
         \o (IF Tail(items) = << >> THEN << >> ELSE <<Punct(",")>>)
         \o dumps_items(Tail(items))

\* json.dumps of a scalar or of a dict of scalars
json_dumps(val) ==
    IF val.t = "dict"
    THEN <<Punct("{")>> \o dumps_items(val.items) \o <<Punct("}")>>
    ELSE <<Lit(val)>>

\* the members between the braces: key ":" value, separated by ","
members_ok(inner) ==
    /\ Len(inner) % 4 = 3
    /\ \A i \in 1..Len(inner) :
         CASE i % 4 = 1 -> inner[i].t = "lit" /\ inner[i].v.t = "str"
           [] i % 4 = 2 -> inner[i].t = ":"
           [] i % 4 = 3 -> inner[i].t = "lit"
           [] OTHER     -> inner[i].t = ","

RECURSIVE members(_)
members(inner) ==
    IF Len(inner) < 3 THEN << >>
    ELSE <<Item(inner[1].v.s, inner[3].v)>>
         \o members(SubSeq(inner, 5, Len(inner)))

\* json.loads: ok is FALSE where Python raises json.JSONDecodeError; a key given
\* twice keeps its last value
json_loads(text) ==
    LET n == Len(text) IN
    IF n = 1 /\ text[1].t = "lit"
    THEN [ok |-> TRUE, val |-> text[1].v]
    ELSE IF n >= 2 /\ text[1].t = "{" /\ text[n].t = "}"
    THEN LET inner == SubSeq(text, 2, n - 1) IN
         IF inner = << >> THEN [ok |-> TRUE, val |-> JDict(<< >>)]
         ELSE IF members_ok(inner)
         THEN [ok |-> TRUE, val |-> JDict(DictUpdate(<< >>, members(inner)))]
         ELSE [ok |-> FALSE, val |-> JNull]
    ELSE [ok |-> FALSE, val |-> JNull]

(* ----------------------------- error envelope -------------------------- *)
\* token_dispenser_client_lib: json.dumps(dict(statusCode=err_code, body=err_msg))
crete_err(err_code, err_msg) ==
    json_dumps(JDict(<<Item(<<"statusCode">>, JInt(err_code)),
                       Item(<<"body">>, JStr(err_msg))>>))

\* token_dispenser_client: json.dumps(dict(body=err_msg))
create_err(err_msg) ==
    json_dumps(JDict(<<Item(<<"body">>, JStr(err_msg))>>))

(* ----------------------------- invoke_lambda --------------------------- *)
ErrNoArn == "Error: lambda_arn not provided"
ErrInvalidJson == "Error: Invalid JSON"
ErrFunction == "Error: Lambda function error: "
ErrInvocation == "Error: Lambda invocation failed: "

\* what lambda_client.invoke does: it throws, or it answers with a body and
\* possibly the FunctionError key
Bodies == {"{\"token\": \"t1\"}", "{\"errorMessage\": \"boom\"}"}
LambdaOutcomes ==
    [kind : {"response"}, body : Bodies, FunctionError : BOOLEAN]
    \cup [kind : {"throws"}, body : {"Lambda Error"}, FunctionError : {FALSE}]

\* the guard written as "lambda_arn is None"
arn_is_none(lambda_arn) == lambda_arn.t = "None"

\* if not lambda_arn: return "Error: lambda_arn not provided"
arn_missing(lambda_arn) == ~Truthy(lambda_arn)

\* the arguments of the call besides FunctionName: the invocation type, and as
\* Payload the parsed parameters, which token_dispenser_client_lib serialises
\* again and token_dispenser_client passes as the parsed object
invoke_payload(m, input_params) ==
    IF m = LIB
    THEN [form |-> "bytes", text |-> json_dumps(input_params), val |-> JNull,
          InvocationType |-> "RequestResponse"]
    ELSE [form |-> "object", text |-> << >>, val |-> input_params,
          InvocationType |-> "RequestResponse"]

NoPayload == [form |-> "none", text |-> << >>, val |-> JNull, InvocationType |-> ""]

\* the result once lambda_client.invoke has answered or thrown
lib_invoke_result(out) ==
    IF out.kind = "throws" THEN <<ErrInvocation, out.body>>
    ELSE IF out.FunctionError THEN <<ErrFunction, out.body>>
    ELSE <<out.body>>

\* token_dispenser_client raises RuntimeError inside the try block, and the
\* except clause below it turns that into the invocation-failed string
cli_invoke_result(out) ==
    IF out.kind = "throws" THEN <<ErrInvocation, out.body>>
    ELSE IF out.FunctionError THEN <<ErrInvocation, ErrFunction, out.body>>
    ELSE <<out.body>>

\* invoke_lambda as a function of its arguments and of what the lambda client
\* does when it is called: the returned string, and the call made (if any)
invoke_lambda(m, input_params_json, lambda_arn, out) ==
    LET parsed == json_loads(input_params_json) IN
    IF arn_missing(lambda_arn)
    THEN [ret |-> <<ErrNoArn>>, called |-> FALSE, payload |-> NoPayload]
    ELSE IF ~parsed.ok
    THEN [ret |-> IF m = LIB THEN <<ErrInvalidJson>>
                  ELSE <<ErrInvalidJson, " : ", "{input_params_json}">>,
          called |-> FALSE, payload |-> NoPayload]
    ELSE [ret |-> IF m = LIB THEN lib_invoke_result(out) ELSE cli_invoke_result(out),
          called |-> TRUE, payload |-> invoke_payload(m, parsed.val)]

(* ------------------------------ get_tds_arn --------------------------- *)
MsgNotFound == "Not able to find tds arn for: "
MsgAmbiguous == "Found more than one tds arn for: "

\* the check taking the first entry whenever there is one
tds_check_first(m, params, params_none) ==
    IF params_none
    THEN [raised |-> "AttributeError", err_msg |-> << >>, tds_arn |-> << >>]
    ELSE IF Len(params) < 1
    THEN [raised |-> IF m = LIB THEN "" ELSE "ValueError",
          err_msg |-> <<MsgNotFound, _DEFAULT_SSM_PATH_>>, tds_arn |-> << >>]
    ELSE [raised |-> "", err_msg |-> << >>, tds_arn |-> params[1].v]

\* the zero / one / many check on the listed parameters; params_none says
\* that get_parameters_by_path returned None
tds_check(m, params, params_none) ==
    IF params_none
    THEN [raised |-> "AttributeError", err_msg |-> << >>, tds_arn |-> << >>]
    ELSE IF Len(params) < 1
    THEN [raised |-> IF m = LIB THEN "" ELSE "ValueError",
          err_msg |-> <<MsgNotFound, _DEFAULT_SSM_PATH_>>, tds_arn |-> << >>]
    ELSE IF Len(params) > 1
    THEN [raised |-> IF m = LIB THEN "" ELSE "ValueError",
          err_msg |-> <<MsgAmbiguous, _DEFAULT_SSM_PATH_>>, tds_arn |-> << >>]
    ELSE [raised |-> "", err_msg |-> << >>, tds_arn |-> params[1].v]

(* ------------------------------ get_token ----------------------------- *)
\* the gate with its test inverted
validation_failed_inverted(err) == err = << >>

\* the validation gate: "not err_msg.strip() == ''" and "len(err_msgs) > 0"
validation_failed(err) == err # << >>

\* the payload built with the default interval in place of the caller's
token_params_default(client_id, minimum_alive_secs) ==
    JDict(<<Item(<<"client_id">>, JOfStr(client_id)),
            Item(<<"minimum_alive_secs">>, JInt(DefaultAliveSecs))>>)

\* dict(client_id=client_id, minimum_alive_secs=minimum_alive_secs)
token_params(client_id, minimum_alive_secs) ==
    JDict(<<Item(<<"client_id">>, JOfStr(client_id)),
            Item(<<"minimum_alive_secs">>, JOfNum(minimum_alive_secs))>>)

\* the loop keeping only the page it read last
accumulate_last_page(params, page) == DictUpdate(<< >>, page)

\* the loop body "parameters[param['Name']] = param['Value']" over one page
accumulate(params, page) == DictUpdate(params, page)

\* if err_msg: (get_token after get_tds_arn, lib package)
resolution_failed(m, err) == m = LIB /\ err # << >>

(* ------------------------------- inputs ------------------------------- *)
Run(n) == [i \in 1..n |-> "a"]
Affixes == {<< >>} \cup {<<c>> : c \in Alphabet}

\* client_id for validate_input: an optional character, a run of
\* alphanumerics, an optional character
ClientIds ==
    {None} \cup {Str(pre \o Run(n) \o suf) :
                    pre \in Affixes, n \in 0..MaxRun, suf \in Affixes}

SecsInputs ==
    {NoNum}
    \cup {IntNum(n) : n \in {MinAliveSecs - 1, MinAliveSecs, MinAliveSecs + 1,
                             DefaultAliveSecs, MaxAliveSecs - 1, MaxAliveSecs,
                             MaxAliveSecs + 1}}
    \cup {FloatNum(h) : h \in {2 * MinAliveSecs - 1, 2 * MinAliveSecs + 1,
                               2 * DefaultAliveSecs, 2 * DefaultAliveSecs + 1,
                               2 * MaxAliveSecs + 1, 2 * MaxAliveSecs + 2}}

\* get_token is driven with the boundary cases of both arguments
TokenClientIds ==
    {None, Str(<< >>), Str(<<" ">>), Str(Run(MinIdLen - 1)), Str(Run(MinIdLen)),
     Str(Run(MaxIdLen)), Str(Run(MaxIdLen + 1)), Str(Run(MinIdLen) \o <<"!">>),
     Str(Run(MinIdLen) \o <<"\n">>)}

TokenSecs ==
    {NoNum, IntNum(MinAliveSecs - 1), IntNum(MinAliveSecs), IntNum(MinAliveSecs + 1),
     IntNum(DefaultAliveSecs), IntNum(MaxAliveSecs), IntNum(MaxAliveSecs + 1),
     FloatNum(2 * DefaultAliveSecs), FloatNum(2 * DefaultAliveSecs + 1)}

\* token_dispenser_arn_ssm_key: absent, a full name, a name ending with '/',
\* the empty string
SsmKeys == {None, Str(<<"/service/token-dispenser/sndbx">>),
            Str(<<"/service/token-dispenser", "/">>), Str(<< >>)}

\* the parameter store: names and values under the default path
ParamNames == {<<"/service/token-dispenser/a">>, <<"/service/token-dispenser/b">>}
ParamValues == {<<"arn:X">>, <<"arn:Y">>}
Entries == {Item(k, v) : k \in ParamNames, v \in ParamValues}
\* one response names a parameter at most once; a later response may name
\* it again
Pages ==
    {<< >>} \cup {<<e>> : e \in Entries}
    \cup {<<p[1], p[2]>> : p \in {q \in Entries \X Entries : q[1].k # q[2].k}}
NextTokens == {None, Str(<< >>), Str(<<"t1">>), Str(<<"t2">>)}

\* what ssm.get_parameters_by_path does on one call
ListResponses ==
    [kind : {"page"}, Parameters : Pages, NextToken : NextTokens]
    \cup [kind : {"throws"}, Parameters : {<< >>}, NextToken : {None}]

\* what ssm.get_parameter does on one call
GetResponses ==
    [kind : {"value"}, Value : ParamValues]
    \cup [kind : {"ParameterNotFound"}, Value : {<< >>}]

\* input_params_json for invoke_lambda: every text of up to MaxTextLen of these
\* tokens, text that is no JSON, and what get_token sends
TextTokens == {Punct("{"), Punct("}"), Punct(":"), Punct(","), Lit(JStr(<<"k">>))}
TextsOfLen(n) == [1..n -> TextTokens]
Texts ==
    UNION {TextsOfLen(n) : n \in 0..MaxTextLen}
    \cup {<<Bad>>, <<Lit(JInt(DefaultAliveSecs))>>,
          json_dumps(token_params(Str(Run(MinIdLen)), IntNum(DefaultAliveSecs)))}

LambdaArns == {None, Str(<< >>), Str(<<"arn:X">>)}

(* -------------------------------- state ------------------------------- *)
VARIABLES
    module,              \* the package whose functions run
    entry,               \* the function the caller called
    pc,                  \* where the call is
    client_id, minimum_alive_secs, ssm_name,   \* arguments
    input_params_json, lambda_arn,             \* invoke_lambda's arguments
    err_msg, tds_arn,    \* validate_input's result, then get_tds_arn's
    tds_raised,          \* the exception get_tds_arn raised ("" for none)
    parameters,          \* get_parameters_by_path: the dict being filled
    params_none,         \* get_parameters_by_path returned None
    next_token,          \* get_parameters_by_path: the continuation token
    resp,                \* invoke_lambda's return value inside get_token
    ret,                 \* what the called function returned
    raised,              \* the exception the called function raised ("" for none)
    stages,              \* how often get_token ran each stage
    ssm_list_calls,      \* calls of ssm.get_parameters_by_path (saturating)
    ssm_get_calls,       \* calls of ssm.get_parameter
    ssm_get_call,        \* the last call of ssm.get_parameter and its outcome
    lambda_calls,        \* calls of lambda_client.invoke
    lambda_call,         \* the last call of lambda_client.invoke and its outcome
    page_entries,        \* entries the store returned over all pages
    page_names           \* their names

vars == <<module, entry, pc, client_id, minimum_alive_secs, ssm_name,
          input_params_json, lambda_arn, err_msg, tds_arn, tds_raised,
          parameters, params_none, next_token, resp, ret, raised, stages,
          ssm_list_calls, ssm_get_calls, ssm_get_call, lambda_calls, lambda_call,
          page_entries, page_names>>

NoRet == [kind |-> "none", text |-> << >>, json |-> << >>, arn |-> << >>]
RetText(s) == [kind |-> "str", text |-> s, json |-> << >>, arn |-> << >>]
RetJson(j) == [kind |-> "json", text |-> << >>, json |-> j, arn |-> << >>]
RetPair(e, a) == [kind |-> "pair", text |-> e, json |-> << >>, arn |-> a]
NoCall == [arn |-> None, payload |-> NoPayload,
           out |-> [kind |-> "none", body |-> "", FunctionError |-> FALSE]]

NoGet == [Name |-> << >>, kind |-> "none", Value |-> << >>]

InitLocals ==
    /\ err_msg = << >> /\ tds_arn = << >> /\ tds_raised = ""
    /\ parameters = << >> /\ params_none = FALSE /\ next_token = None
    /\ resp = << >> /\ ret = NoRet /\ raised = ""
    /\ stages = [validate |-> 0, resolve |-> 0, invoke |-> 0]
    /\ ssm_list_calls = 0 /\ ssm_get_calls = 0 /\ ssm_get_call = NoGet
    /\ lambda_calls = 0 /\ lambda_call = NoCall
    /\ page_entries = 0 /\ page_names = {}

Init ==
    /\ module \in Modules
    /\ InitLocals
    /\ \/ /\ entry = "validate_input" /\ pc = "validate"
          /\ client_id \in ClientIds /\ minimum_alive_secs \in SecsInputs
          /\ ssm_name = None /\ input_params_json = << >> /\ lambda_arn = None
       \/ /\ entry = "get_token" /\ pc = "validate"
          /\ client_id \in TokenClientIds /\ minimum_alive_secs \in TokenSecs
          /\ ssm_name \in SsmKeys /\ input_params_json = << >> /\ lambda_arn = None
       \/ /\ entry = "get_tds_arn" /\ pc = "resolve"
          /\ client_id = None /\ minimum_alive_secs = NoNum
          /\ ssm_name \in SsmKeys /\ input_params_json = << >> /\ lambda_arn = None
       \/ /\ entry = "invoke_lambda" /\ pc = "invoke"
          /\ client_id = None /\ minimum_alive_secs = NoNum /\ ssm_name = None
          /\ input_params_json \in Texts /\ lambda_arn \in LambdaArns

(* ------------------------------- actions ------------------------------ *)
Min(a, b) == IF a < b THEN a ELSE b

\* validate_input, and in get_token the gate behind it: the lib package
\* returns the 422 envelope, the other package raises ValueError(err_msgs)
Validate ==
    /\ pc = "validate"
    /\ LET err == validate_input(module, client_id, minimum_alive_secs) IN
       /\ err_msg' = err
       /\ stages' = [stages EXCEPT !.validate = @ + 1]
       /\ IF entry = "validate_input"
          THEN pc' = "done" /\ ret' = RetText(err) /\ raised' = ""
          ELSE IF validation_failed(err)
          THEN /\ pc' = "done"
               /\ IF module = LIB
                  THEN ret' = RetJson(crete_err(ValidationStatus, err)) /\ raised' = ""
                  ELSE ret' = NoRet /\ raised' = "ValueError"
          ELSE pc' = "resolve" /\ ret' = NoRet /\ raised' = ""
    /\ UNCHANGED <<module, entry, client_id, minimum_alive_secs, ssm_name,
                   input_params_json, lambda_arn, tds_arn, tds_raised, parameters,
                   params_none, next_token, resp, ssm_list_calls, ssm_get_calls, ssm_get_call,
                   lambda_calls, lambda_call, page_entries, page_names>>

\* get_tds_arn up to its first call: the default path is listed when no key
\* is given, a given key is looked up by name
ResolveStart ==
    /\ pc = "resolve"
    /\ stages' = [stages EXCEPT !.resolve = @ + 1]
    /\ err_msg' = << >>
    /\ tds_arn' = << >>
    /\ parameters' = << >>
    /\ next_token' = None
    /\ pc' = IF ssm_name.t = "None" THEN "paging" ELSE "lookup"
    /\ UNCHANGED <<module, entry, client_id, minimum_alive_secs, ssm_name,
                   input_params_json, lambda_arn, tds_raised, params_none, resp,
                   ret, raised, ssm_list_calls, ssm_get_calls, ssm_get_call, lambda_calls,
                   lambda_call, page_entries, page_names>>

\* where a call goes once get_tds_arn has returned or raised
AfterTds == IF entry = "get_token" THEN "resolved" ELSE "done"

\* one pass of the loop of get_parameters_by_path: one call of the store, the
\* page's entries put into the dict, the loop left when no token comes back.
\* When the store throws, the lib package returns None and the other package
\* re-raises.
ListPage ==
    /\ pc = "paging"
    /\ \E r \in ListResponses :
         /\ page_entries + Len(r.Parameters) <= MaxReturned
         /\ ssm_list_calls' = Min(ssm_list_calls + 1, MaxCalls)
         /\ page_entries' = page_entries + Len(r.Parameters)
         /\ page_names' = page_names \cup DictKeys(r.Parameters)
         /\ IF r.kind = "throws"
            THEN /\ UNCHANGED <<parameters, next_token>>
                 /\ IF module = LIB
                    THEN /\ params_none' = TRUE /\ pc' = "listed"
                         /\ UNCHANGED <<tds_raised, raised>>
                    ELSE /\ params_none' = FALSE /\ pc' = AfterTds
                         /\ tds_raised' = "SsmError"
                         /\ raised' = IF entry = "get_token" THEN "" ELSE "SsmError"
            ELSE /\ parameters' = accumulate(parameters, r.Parameters)
                 /\ next_token' = r.NextToken
                 /\ pc' = IF Truthy(r.NextToken) THEN "paging" ELSE "listed"
                 /\ UNCHANGED <<params_none, tds_raised, raised>>
    /\ UNCHANGED <<module, entry, client_id, minimum_alive_secs, ssm_name,
                   input_params_json, lambda_arn, err_msg, tds_arn, resp, ret,
                   stages, ssm_get_calls, ssm_get_call, lambda_calls, lambda_call>>

\* get_tds_arn after the listing: the zero / one / many check
ResolveCheck ==
    /\ pc = "listed"
    /\ LET r == tds_check(module, parameters, params_none) IN
       /\ err_msg' = r.err_msg
       /\ tds_arn' = r.tds_arn
       /\ tds_raised' = r.raised
       /\ pc' = AfterTds
       /\ IF entry = "get_token"
          THEN UNCHANGED <<ret, raised>>
          ELSE /\ raised' = r.raised
               /\ ret' = IF r.raised # "" THEN NoRet
                         ELSE IF module = LIB THEN RetPair(r.err_msg, r.tds_arn)
                         ELSE RetText(r.tds_arn)
    /\ UNCHANGED <<module, entry, client_id, minimum_alive_secs, ssm_name,
                   input_params_json, lambda_arn, parameters, params_none,
                   next_token, resp, stages, ssm_list_calls, ssm_get_calls, ssm_get_call,
                   lambda_calls, lambda_call, page_entries, page_names>>

\* get_parameter_by_name: a name ending with '/' skips the call and reads the
\* unassigned "response"; a store error propagates from the lib package, and in
\* the other package the handler's log line reads the unassigned "response"
Lookup ==
    /\ pc = "lookup"
    /\ \E r \in GetResponses :
         LET skipped == endswith_slash(ssm_name.s)
             exc == IF skipped THEN "UnboundLocalError"
                    ELSE IF r.kind = "value" THEN ""
                    ELSE IF module = LIB THEN r.kind
                    ELSE "UnboundLocalError"
         IN  /\ ssm_get_calls' = IF skipped THEN ssm_get_calls ELSE ssm_get_calls + 1
             /\ ssm_get_call' = IF skipped THEN ssm_get_call
                               ELSE [Name |-> ssm_name.s, kind |-> r.kind,
                                     Value |-> r.Value]
             /\ tds_raised' = exc
             /\ tds_arn' = IF exc = "" THEN r.Value ELSE << >>
             /\ err_msg' = << >>
             /\ pc' = AfterTds
             /\ IF entry = "get_token"
                THEN UNCHANGED <<ret, raised>>
                ELSE /\ raised' = exc
                     /\ ret' = IF exc # "" THEN NoRet
                               ELSE IF module = LIB THEN RetPair(<< >>, r.Value)
                               ELSE RetText(r.Value)
    /\ UNCHANGED <<module, entry, client_id, minimum_alive_secs, ssm_name,
                   input_params_json, lambda_arn, parameters, params_none,
                   next_token, resp, stages, ssm_list_calls, lambda_calls,
                   lambda_call, page_entries, page_names>>

\* get_token once get_tds_arn is back: the lib package returns the 500
\* envelope for a message, the other package catches ValueError and returns its
\* message in an envelope; any other exception leaves get_token; otherwise the
\* payload is built for invoke_lambda
AfterResolve ==
    /\ pc = "resolved"
    /\ IF tds_raised = "ValueError" /\ module = CLI
       THEN /\ pc' = "done" /\ ret' = RetJson(create_err(err_msg)) /\ raised' = ""
            /\ UNCHANGED <<input_params_json, lambda_arn>>
       ELSE IF tds_raised # ""
       THEN /\ pc' = "done" /\ ret' = NoRet /\ raised' = tds_raised
            /\ UNCHANGED <<input_params_json, lambda_arn>>
       ELSE IF resolution_failed(module, err_msg)
       THEN /\ pc' = "done" /\ raised' = ""
            /\ ret' = RetJson(crete_err(ResolutionStatus, err_msg))
            /\ UNCHANGED <<input_params_json, lambda_arn>>
       ELSE /\ pc' = "invoke"
            /\ input_params_json' =
                   json_dumps(token_params(client_id, minimum_alive_secs))
            /\ lambda_arn' = Str(tds_arn)
            /\ UNCHANGED <<ret, raised>>
    /\ UNCHANGED <<module, entry, client_id, minimum_alive_secs, ssm_name,
                   err_msg, tds_arn, tds_raised, parameters, params_none,
                   next_token, resp, stages, ssm_list_calls, ssm_get_calls, ssm_get_call,
                   lambda_calls, lambda_call, page_entries, page_names>>

\* invoke_lambda: the two guards, then one call of the lambda client
Invoke ==
    /\ pc = "invoke"
    /\ \E out \in LambdaOutcomes :
         LET r == invoke_lambda(module, input_params_json, lambda_arn, out) IN
         /\ lambda_calls' = IF r.called THEN lambda_calls + 1 ELSE lambda_calls
         /\ lambda_call' = IF r.called
                           THEN [arn |-> lambda_arn, payload |-> r.payload, out |-> out]
                           ELSE lambda_call
         /\ resp' = r.ret
         /\ IF entry = "get_token"
            THEN /\ pc' = "invoked" /\ UNCHANGED ret
                 /\ stages' = [stages EXCEPT !.invoke = @ + 1]
            ELSE /\ pc' = "done" /\ ret' = RetText(r.ret) /\ UNCHANGED stages
    /\ UNCHANGED <<module, entry, client_id, minimum_alive_secs, ssm_name,
                   input_params_json, lambda_arn, err_msg, tds_arn, tds_raised,
                   parameters, params_none, next_token, raised, ssm_list_calls,
                   ssm_get_calls, ssm_get_call, page_entries, page_names>>

\* get_token: return resp
Return ==
    /\ pc = "invoked"
    /\ pc' = "done"
    /\ ret' = RetText(resp)
    /\ UNCHANGED <<module, entry, client_id, minimum_alive_secs, ssm_name,
                   input_params_json, lambda_arn, err_msg, tds_arn, tds_raised,
                   parameters, params_none, next_token, resp, raised, stages,
                   ssm_list_calls, ssm_get_calls, ssm_get_call, lambda_calls, lambda_call,
                   page_entries, page_names>>

Next ==
    \/ Validate
    \/ ResolveStart
    \/ ListPage
    \/ ResolveCheck
    \/ Lookup
    \/ AfterResolve
    \/ Invoke
    \/ Return

Spec == Init /\ [][Next]_vars

\* the call runs on one thread to its end: a step that can be taken is taken
FairSpec == Spec /\ WF_vars(Next)

(* ------------------------- reading the state -------------------------- *)
Has(seq, x) == \E i \in 1..Len(seq) : seq[i] = x

\* get_token has run its validate stage and validate_input reported an error
ValidationErrorReported ==
    /\ entry = "get_token"
    /\ stages.validate >= 1
    /\ validate_input(module, client_id, minimum_alive_secs) # << >>

\* get_tds_arn has come back
TdsBack == stages.resolve >= 1 /\ pc \in {"resolved", "invoke", "invoked", "done"}

\* get_tds_arn reported zero or more than one entry (by its message, which the
\* lib package returns and the other package raises inside ValueError)
ResolutionFailureReported == TdsBack /\ err_msg # << >>

\* the listing of the default path came back as a dict
ListingDone ==
    /\ stages.resolve >= 1
    /\ ssm_name.t = "None"
    /\ pc \in {"listed", "resolved", "invoke", "invoked", "done"}
    /\ ~params_none
    /\ tds_raised # "SsmError"

\* invoke_lambda has returned
InvokeBack ==
    \/ entry = "invoke_lambda" /\ pc = "done"
    \/ entry = "get_token" /\ stages.invoke >= 1

\* the object a JSON text stands for, and whether that object is the envelope
\* {"statusCode": code, "body": body}
IsEnvelope(text, code, body) ==
    /\ json_loads(text).ok
    /\ json_loads(text).val.t = "dict"
    /\ LET items == json_loads(text).val.items IN
       /\ Len(items) = 2
       /\ \E i \in 1..2 : items[i].k = <<"statusCode">>
                          /\ items[i].v.t = "int" /\ items[i].v.n = 2 * code
       /\ \E i \in 1..2 : items[i].k = <<"body">>
                          /\ items[i].v.t = "str" /\ items[i].v.s = body

\* the resolve stage met an error: a store call threw, get_tds_arn raised, or
\* get_tds_arn reported zero or more than one entry
ResolveErrorSeen ==
    /\ TdsBack
    /\ \/ tds_raised # ""
       \/ params_none
       \/ err_msg # << >>
       \/ ssm_get_call.kind = "ParameterNotFound"

\* the object handed to lambda_client.invoke as Payload
PayloadValue(p) == IF p.form = "bytes" THEN json_loads(p.text).val ELSE p.val

\* 3 to 32 characters, all of [A-Za-z0-9]
WellFormedId(x) ==
    /\ x.t = "str"
    /\ Len(x.s) >= MinIdLen /\ Len(x.s) <= MaxIdLen
    /\ \A i \in 1..Len(x.s) : x.s[i] \in AlnumChars

(* ------------------------------- claims ------------------------------- *)

\* C1: in get_token a validation error means no parameter-store call and no
\* lambda invocation; a resolution failure reported by get_tds_arn means no
\* lambda invocation; and no stage runs more than once in a call.
C1_ShortCircuit ==
    entry = "get_token" =>
        /\ ValidationErrorReported =>
               /\ ssm_list_calls = 0 /\ ssm_get_calls = 0 /\ lambda_calls = 0
               /\ stages.resolve = 0 /\ stages.invoke = 0
        /\ ResolutionFailureReported => lambda_calls = 0 /\ stages.invoke = 0
        /\ stages.validate <= 1 /\ stages.resolve <= 1 /\ stages.invoke <= 1
        /\ lambda_calls <= 1

\* a get_token call that ended on an ambiguous default path after two
\* listing calls
C1_Witness ==
    /\ entry = "get_token" /\ pc = "done"
    /\ ResolutionFailureReported
    /\ Len(parameters) = 2
    /\ ssm_list_calls = 2

\* C2: when get_token fails at validation or at resolution it returns, and does
\* not raise, the JSON object {statusCode, body}: 422 with the validation
\* message(s), 500 with the resolver's message.
C2_ErrorEnvelope ==
    (entry = "get_token" /\ pc = "done") =>
        /\ ValidationErrorReported =>
               /\ raised = ""
               /\ ret.kind = "json"
               /\ IsEnvelope(ret.json, ValidationStatus,
                             validate_input(module, client_id, minimum_alive_secs))
        /\ ResolutionFailureReported =>
               /\ raised = ""
               /\ ret.kind = "json"
               /\ IsEnvelope(ret.json, ResolutionStatus, err_msg)

\* C3: for valid arguments and a resolver that yields one ARN, get_token makes
\* exactly one invocation, on that ARN, with a payload of exactly the fields
\* client_id and minimum_alive_secs holding the caller's values, and returns
\* what invoke_lambda returned (the response body itself on success).
C3_SingleInvocation ==
    ( /\ entry = "get_token" /\ pc = "done"
      /\ validate_input(module, client_id, minimum_alive_secs) = << >>
      /\ TdsBack /\ tds_raised = "" /\ err_msg = << >> /\ tds_arn # << >> ) =>
        /\ lambda_calls = 1
        /\ lambda_call.arn = Str(tds_arn)
        /\ lambda_call.payload.form \in {"bytes", "object"}
        /\ PayloadValue(lambda_call.payload).t = "dict"
        /\ LET items == PayloadValue(lambda_call.payload).items IN
           /\ Len(items) = 2
           /\ items[1].k = <<"client_id">>
           /\ items[1].v = JOfStr(client_id)
           /\ items[2].k = <<"minimum_alive_secs">>
           /\ items[2].v = JOfNum(minimum_alive_secs)
        /\ raised = ""
        /\ ret = RetText(resp)
        /\ (lambda_call.out.kind = "response" /\ ~lambda_call.out.FunctionError)
               => ret.text = <<lambda_call.out.body>>

\* get_token("a" * 32, 3300) on a default path of one entry, answered by the
\* token dispenser
C3_Witness ==
    /\ entry = "get_token" /\ pc = "done"
    /\ client_id = Str(Run(MaxIdLen)) /\ minimum_alive_secs = IntNum(MaxAliveSecs)
    /\ ssm_name = None
    /\ lambda_calls = 1
    /\ lambda_call.out.kind = "response" /\ ~lambda_call.out.FunctionError
    /\ ret.text = <<lambda_call.out.body>>

\* C4: with no key, get_tds_arn fails with the not-found message when the
\* default path holds no entry, with the more-than-one message when it holds
\* two or more, and returns the single entry's value when it holds one; it
\* never picks among several, and on failure the ARN is empty.
C4_ZeroOneMany ==
    (ListingDone /\ TdsBack) =>
        /\ Cardinality(page_names) = 0 =>
               /\ err_msg = <<MsgNotFound, _DEFAULT_SSM_PATH_>>
               /\ tds_raised = (IF module = LIB THEN "" ELSE "ValueError")
               /\ tds_arn = << >>
        /\ Cardinality(page_names) >= 2 =>
               /\ err_msg = <<MsgAmbiguous, _DEFAULT_SSM_PATH_>>
               /\ tds_raised = (IF module = LIB THEN "" ELSE "ValueError")
               /\ tds_arn = << >>
        /\ Cardinality(page_names) = 1 =>
               /\ err_msg = << >> /\ tds_raised = ""
               /\ Len(parameters) = 1
               /\ tds_arn = parameters[1].v
               /\ tds_arn \in ParamValues

\* get_tds_arn(None) on a default path of two entries
C4_Witness ==
    /\ entry = "get_tds_arn" /\ pc = "done"
    /\ ssm_name = None
    /\ Cardinality(page_names) = 2
    /\ err_msg = <<MsgAmbiguous, _DEFAULT_SSM_PATH_>>
    /\ tds_arn = << >>

\* C5 as stated: the number of entries the zero / one / many check sees is
\* the total number of entries returned across all pages.
C5_CountsEveryEntry ==
    ListingDone => Len(parameters) = page_entries

\* C5 as amended: the listing goes on until no continuation token comes back,
\* and the check sees one entry for every distinct name returned on any page,
\* which is the total number of entries returned when no name is returned
\* twice.
C5_CountsEveryName ==
    ListingDone =>
        /\ ~Truthy(next_token)
        /\ DictKeys(parameters) = page_names
        /\ Len(parameters) = Cardinality(page_names)
        /\ (page_entries = Cardinality(page_names)) => Len(parameters) = page_entries

\* two pages of one entry each, of different names: a count of 2 and the
\* more-than-one failure
C5_Witness ==
    /\ ListingDone /\ TdsBack
    /\ ssm_list_calls = 2
    /\ page_entries = 2
    /\ Len(parameters) = 2
    /\ err_msg = <<MsgAmbiguous, _DEFAULT_SSM_PATH_>>

\* C6: validate_input accepts minimum_alive_secs exactly when it is an integer
\* in [1, 3300]: no interval error for 1..3300, the range error for every
\* integer <= 0 or >= 3301, the must-be-an-integer error for every
\* non-integral value.
C6_AliveSecsRange ==
    (entry = "validate_input" /\ pc = "done") =>
        LET x == minimum_alive_secs IN
        /\ (x.t = "int" /\ x.twice >= 2 * 1 /\ x.twice <= 2 * MaxAliveSecs)
               => ~Has(ret.text, MsgRange) /\ ~Has(ret.text, MsgInteger)
        /\ (x.t = "int" /\ (x.twice <= 0 \/ x.twice >= 2 * (MaxAliveSecs + 1)))
               => Has(ret.text, MsgRange)
        /\ (x.t = "float" /\ x.twice % 2 = 1) => Has(ret.text, MsgInteger)

\* C7: validate_input reports an error for every client_id that is missing,
\* empty, only whitespace, shorter than 3 or longer than 32, or holds a
\* character outside [A-Za-z0-9]; it reports no client_id error for 3 to 32
\* characters of [A-Za-z0-9].
C7_ClientIdRule ==
    (entry = "validate_input" /\ pc = "done") =>
        /\ ~WellFormedId(client_id) => ret.text # << >>
        /\ WellFormedId(client_id)
               => ~Has(ret.text, MsgRequired) /\ ~Has(ret.text, MsgPattern)

\* C8: invoke_lambda calls the lambda client only for a non-empty ARN and a
\* payload that parses as JSON: without an ARN it returns the missing-target
\* error, with a payload that is no JSON the invalid-payload error, both
\* without a call; otherwise it makes exactly one call.
C8_InvokeGuards ==
    InvokeBack =>
        /\ ~Truthy(lambda_arn) => resp = <<ErrNoArn>> /\ lambda_calls = 0
        /\ (Truthy(lambda_arn) /\ ~json_loads(input_params_json).ok)
               => resp # << >> /\ resp[1] = ErrInvalidJson /\ lambda_calls = 0
        /\ (Truthy(lambda_arn) /\ json_loads(input_params_json).ok)
               => /\ lambda_calls = 1 /\ lambda_call.arn = lambda_arn
                  /\ lambda_call.payload.InvocationType = "RequestResponse"

\* invoke_lambda with an ARN and a text that opens an object and never closes it
C8_Witness ==
    /\ entry = "invoke_lambda" /\ pc = "done"
    /\ Truthy(lambda_arn)
    /\ input_params_json = <<Punct("{"), Lit(JStr(<<"k">>)), Punct(":")>>
    /\ resp[1] = ErrInvalidJson
    /\ lambda_calls = 0

\* C9: a response with the FunctionError key makes invoke_lambda return a
\* string that begins with "Error: Lambda function error:" and ends with the
\* response body, unlike the "Error: Lambda invocation failed:" string of a
\* call that throws; without the key the body is returned as it is.
C9_FunctionError ==
    (InvokeBack /\ lambda_calls = 1) =>
        LET out == lambda_call.out IN
        /\ (out.kind = "response" /\ out.FunctionError)
               => resp = <<ErrFunction, out.body>>
        /\ out.kind = "throws" => resp[1] = ErrInvocation
        /\ (out.kind = "response" /\ ~out.FunctionError) => resp = <<out.body>>

\* C10: the loop of get_parameters_by_path ends whatever the parameter store
\* does: a store that sends a continuation token with every response is
\* given up on after a capped number of calls.
C10_PagingEnds == (pc = "paging") ~> (pc # "paging")

\* C11: for every key given to get_tds_arn, also one that ends with '/', the
\* resolver makes exactly one call of ssm.get_parameter with the key as Name
\* and no listing call; it returns the value found, and when the store reports
\* the key absent that same error reaches the caller.
C11_ExplicitKey ==
    (ssm_name.t = "str" /\ TdsBack) =>
        /\ ssm_get_calls = 1
        /\ ssm_get_call.Name = ssm_name.s
        /\ ssm_list_calls = 0
        /\ ssm_get_call.kind = "value"
               => tds_raised = "" /\ err_msg = << >> /\ tds_arn = ssm_get_call.Value
        /\ ssm_get_call.kind = "ParameterNotFound"
               => tds_raised = "ParameterNotFound"

\* C12: any error in the resolve stage of get_token, also a parameter-store
\* call that throws during the listing of the default path, makes get_token
\* return the resolution-failure envelope: it returns the JSON object with
\* statusCode 500 and a string body, makes no lambda invocation, and raises
\* nothing.
C12_ResolveErrorEnvelope ==
    (entry = "get_token" /\ pc = "done" /\ ResolveErrorSeen) =>
        /\ lambda_calls = 0 /\ stages.invoke = 0
        /\ raised = ""
        /\ ret.kind = "json"
        /\ json_loads(ret.json).ok
        /\ json_loads(ret.json).val.t = "dict"
        /\ LET items == json_loads(ret.json).val.items IN
           /\ \E i \in 1..Len(items) :
                  /\ items[i].k = <<"statusCode">>
                  /\ items[i].v.t = "int" /\ items[i].v.n = 2 * ResolutionStatus
           /\ \E i \in 1..Len(items) :
                  items[i].k = <<"body">> /\ items[i].v.t = "str"

====
